---- MODULE Spec2Model ----
(***************************************************************************)
(* Model of the per-page pipeline of utils/scraper_utils.py:               *)
(* get_llm_strategy, check_no_results and fetch_and_process_page, with the *)
(* seen_names set shared by successive page invocations.                   *)
(*                                                                         *)
(* Strings are sequences of tokens, so that strip, lower, find, split and  *)
(* join are computed and not assumed.  A token is one delimiter character  *)
(* ("/", ":", " ") or a run of letters, digits and dots.  Queries,         *)
(* fragments and ;params are outside the token alphabet.                   *)
(***************************************************************************)
EXTENDS Integers, Sequences, FiniteSets, TLC

\* ------------------------------------------------------------------ bounds

\* pages one run processes
MaxPages == 2
\* items in one extraction result built from CoreVenues
MaxItems == 2

\* ----------------------------------------------------------------- strings

None == "None"

\* str.lstrip(" ...") of urlsplit: leading spaces removed
RECURSIVE LStrip(_)
LStrip(s) ==
    IF s # << >> /\ Head(s) = " " THEN LStrip(Tail(s)) ELSE s

\* str.lower(), on the tokens of the alphabet that have upper-case letters
LowerTok(t) ==
    CASE t = "HTTPS" -> "https"
      [] t = "HTTP" -> "http"
      [] OTHER -> t

Lower(s) == [i \in DOMAIN s |-> LowerTok(s[i])]

\* str.find(c): position (from 1) of the first token c, 0 when there is none
Find(s, c) ==
    IF \E i \in DOMAIN s : s[i] = c
    THEN CHOOSE i \in DOMAIN s : s[i] = c /\ \A j \in 1..(i - 1) : s[j] # c
    ELSE 0

\* s[a:] and s[:b] in positions from 1
From(s, a) == IF a > Len(s) THEN << >> ELSE SubSeq(s, a, Len(s))

Upto(s, b) ==
    IF b < 1 THEN << >> ELSE SubSeq(s, 1, IF b > Len(s) THEN Len(s) ELSE b)

\* tokens made of scheme_chars only (letters, digits, "+", "-", ".")
IsSchemeTok(t) == t \notin {"/", ":", " "}
\* tokens whose first character is an ASCII letter
IsAlphaTok(t) == t \notin {"/", ":", " ", ".", ".."}

\* str.split("/"): the segments between the "/" tokens
RECURSIVE SplitFrom(_, _)
SplitFrom(s, i) ==
    IF i = 0 THEN << s >>
    ELSE << Upto(s, i - 1) >>
           \o SplitFrom(From(s, i + 1), Find(From(s, i + 1), "/"))

Split(s) == SplitFrom(s, Find(s, "/"))

\* "/".join(segments)
RECURSIVE Join(_)
Join(segs) ==
    IF segs = << >> THEN << >>
    ELSE IF Len(segs) = 1 THEN segs[1]
    ELSE segs[1] \o << "/" >> \o Join(Tail(segs))

\* str.strip() == "": the value is empty or whitespace only
IsBlank(s) == \A i \in DOMAIN s : s[i] = " "

\* -------------------------------------------------------------- urllib.parse

uses_relative == { << >>, << "http" >>, << "https" >>, << "ftp" >> }
uses_netloc == { << >>, << "http" >>, << "https" >>, << "ftp" >> }

\* _splitnetloc(url, 2): the netloc after "//" and the rest from the next "/"
SplitAt(rest, d) ==
    IF d = 0 THEN [netloc |-> rest, url |-> << >>]
    ELSE [netloc |-> Upto(rest, d - 1), url |-> From(rest, d)]

NetlocOf(rest) == SplitAt(rest, Find(rest, "/"))

splitnetloc(url) == NetlocOf(From(url, 3))

\* urlsplit after the scheme: if url[:2] == "//" the netloc is split off
SplitRest(scheme, url) ==
    IF Upto(url, 2) = << "/", "/" >>
    THEN [scheme |-> scheme] @@ splitnetloc(url)
    ELSE [scheme |-> scheme, netloc |-> << >>, url |-> url]

\* urlsplit with i = url.find(":"): the scheme is url[:i].lower() when i > 0,
\* url[0] is a letter and url[:i] is made of scheme_chars
SplitScheme(url, i, scheme) ==
    IF i > 1 /\ IsAlphaTok(url[1]) /\ \A k \in 1..(i - 1) : IsSchemeTok(url[k])
    THEN SplitRest(Lower(Upto(url, i - 1)), From(url, i + 1))
    ELSE SplitRest(scheme, url)

Stripped(url, scheme) == SplitScheme(url, Find(url, ":"), scheme)

\* urlsplit(url, scheme): (scheme, netloc, url), url being the path
urlsplit(url, scheme) == Stripped(LStrip(url), scheme)

\* url = "/" + url when url and url[:1] != "/"
Rooted(path) == IF path # << >> /\ Head(path) # "/" THEN << "/" >> \o path ELSE path

WithScheme(scheme, url) == IF scheme # << >> THEN scheme \o << ":" >> \o url ELSE url

\* urlunsplit((scheme, netloc, url, "", ""))
urlunsplit(scheme, netloc, path) ==
    IF \/ netloc # << >>
       \/ (scheme # << >> /\ scheme \in uses_netloc /\ Upto(path, 2) # << "/", "/" >>)
    THEN WithScheme(scheme, << "/", "/" >> \o netloc \o Rooted(path))
    ELSE WithScheme(scheme, path)

\* segments[1:-1] = filter(None, segments[1:-1])
FilterInner(segs) ==
    IF Len(segs) <= 2 THEN segs
    ELSE << segs[1] >>
           \o SelectSeq(SubSeq(segs, 2, Len(segs) - 1), LAMBDA x : x # << >>)
           \o << segs[Len(segs)] >>

\* the loop over segments that resolves "." and ".."
RECURSIVE Resolve(_, _)
Resolve(segs, resolved) ==
    IF segs = << >> THEN resolved
    ELSE IF Head(segs) = << ".." >>
    THEN Resolve(Tail(segs), Upto(resolved, Len(resolved) - 1))
    ELSE IF Head(segs) = << "." >>
    THEN Resolve(Tail(segs), resolved)
    ELSE Resolve(Tail(segs), Append(resolved, Head(segs)))

\* if base_parts[-1] != "": del base_parts[-1]
BaseParts(parts) ==
    IF parts[Len(parts)] # << >> THEN Upto(parts, Len(parts) - 1) ELSE parts

\* the segments to resolve: the path's own when it starts with "/", else the
\* base's directory followed by the path's
Segments(bpath, path) ==
    IF path # << >> /\ Head(path) = "/" THEN Split(path)
    ELSE FilterInner(BaseParts(Split(bpath)) \o Split(path))

\* a trailing "." or ".." leaves a trailing "/"
Trailing(segments, resolved) ==
    IF segments[Len(segments)] \in { << "." >>, << ".." >> }
    THEN Append(resolved, << >>)
    ELSE resolved

ResolvedPath(segments) == Join(Trailing(segments, Resolve(segments, << >>)))

\* "/".join(resolved_path) or "/"
OrRoot(path) == IF path = << >> THEN << "/" >> ELSE path

\* urljoin that resolves every same-scheme URL against the base's netloc
JoinParsedNoNetloc(b, u, url) ==
    IF u.scheme # b.scheme \/ u.scheme \notin uses_relative THEN url
    ELSE IF u.url = << >>
    THEN urlunsplit(u.scheme, b.netloc, b.url)
    ELSE urlunsplit(u.scheme, b.netloc, OrRoot(ResolvedPath(Segments(b.url, u.url))))

\* urljoin once base and url are parsed
JoinParsed(b, u, url) ==
    IF u.scheme # b.scheme \/ u.scheme \notin uses_relative THEN url
    ELSE IF u.scheme \in uses_netloc /\ u.netloc # << >>
    THEN urlunsplit(u.scheme, u.netloc, u.url)
    ELSE IF u.url = << >>
    THEN urlunsplit(u.scheme, b.netloc, b.url)
    ELSE urlunsplit(u.scheme, b.netloc, OrRoot(ResolvedPath(Segments(b.url, u.url))))

JoinBase(b, url) == JoinParsed(b, urlsplit(url, b.scheme), url)

urljoin(base, url) ==
    IF base = << >> THEN url
    ELSE IF url = << >> THEN base
    ELSE JoinBase(urlsplit(base, << >>), url)

\* ------------------------------------------------------------ data of a run

\* document names and error messages, as token strings
CertA == << "Cert", " ", "A" >>
CertB == << "Cert", " ", "B" >>
FetchError == << "net", ":", ":", "ERR_TIMED_OUT" >>
LlmError == << "rate_limit" >>

\* URLs the collaborators hand to the pipeline
PageUrl == << "https", ":", "/", "/", "example.com", "/", "certs" >>
HrefCdn == << "https", ":", "/", "/", "example.com", "/", "a", "/", "b" >>
HrefHttp == << "http", ":", "/", "/", "example.com" >>
RootRel == << "/", "docs", "/", "cert.pdf" >>
PathRel == << "docs", "/", "cert.pdf" >>
Absolute == << "https", ":", "/", "/", "other.com", "/", "cert.pdf" >>
AbsoluteDots ==
    << "https", ":", "/", "/", "other.com", "/", "a", "/", "..", "/", "cert.pdf" >>
UpperScheme == << "HTTPS", ":", "/", "/", "other.com", "/", "cert.pdf" >>
SchemeOnly == << "https", ":", "cert.pdf" >>
LeadingSpace == << " " >> \o Absolute

\* a raw item (dict) of the extraction result
Item(name, url) == [document_name |-> name, document_url |-> url]
OnlyName(name) == [document_name |-> name]
OnlyUrl(url) == [document_url |-> url]

\* items every extraction list is built from
CoreVenues == { Item(CertA, RootRel), Item(CertA, Absolute), Item(CertB, PathRel) }

\* extraction results of one item, for the URL and completeness cases
EdgeVenues ==
    { Item(CertB, SchemeOnly), Item(CertB, UpperScheme), Item(CertA, LeadingSpace),
      Item(CertB, AbsoluteDots),
      Item(CertA, << >>), Item(CertA, << " " >>),
      Item(<< " " >>, Absolute),
      OnlyName(CertB), OnlyUrl(Absolute) }

RECURSIVE ListsUpTo(_)
ListsUpTo(n) ==
    IF n = 0 THEN { << >> }
    ELSE LET shorter == ListsUpTo(n - 1)
         IN  shorter \cup { Append(l, v) : l \in { m \in shorter : Len(m) = n - 1 },
                                           v \in CoreVenues }

\* the parsed extraction results: lists over CoreVenues, one edge item alone, and
\* an incomplete item followed by a complete one
ExtractedLists ==
    ListsUpTo(MaxItems)
      \cup { << v >> : v \in EdgeVenues }
      \cup { << OnlyName(CertB), Item(CertA, RootRel) >>,
             << Item(<< " " >>, Absolute), Item(CertB, PathRel) >> }

\* crawler.arun() without extraction: success, cleaned_html (its <base> tag and
\* whether the text "No Results Found" occurs in it), error_message
Html(has_base, href, marker) == [has_base |-> has_base, href |-> href, marker |-> marker]

FetchOk(html) == [success |-> TRUE, cleaned_html |-> html, error_message |-> << >>]

FetchFailed == [success |-> FALSE, cleaned_html |-> Html(FALSE, << >>, FALSE),
                error_message |-> FetchError]

Pages ==
    { FetchOk(Html(FALSE, << >>, FALSE)), FetchOk(Html(TRUE, << >>, TRUE)),
      FetchOk(Html(TRUE, HrefCdn, FALSE)), FetchOk(Html(TRUE, HrefHttp, TRUE)) }

\* crawler.arun() with the extraction strategy: success, extracted_content
\* (None, or a string that is malformed JSON or the JSON of a list), error_message
Extraction(success, kind, data, err) ==
    [success |-> success, extracted_content |-> [kind |-> kind, data |-> data],
     error_message |-> err]

NotCalled == Extraction(FALSE, "not_called", << >>, << >>)

ExtractionResults ==
    { Extraction(FALSE, "None", << >>, LlmError),
      Extraction(TRUE, "None", << >>, << >>),
      Extraction(TRUE, "malformed", << >>, << >>) }
      \cup { Extraction(TRUE, "json", l, << >>) : l \in ExtractedLists }

\* ------------------------------------------------------------ utils.data_utils

required_keys == << "document_name", "document_url" >>

\* a field is present when the key exists and its value is not blank
is_complete_venue(venue, keys) ==
    \A i \in DOMAIN keys : keys[i] \in DOMAIN venue /\ ~IsBlank(venue[keys[i]])

is_duplicate_venue(name, seen) == name \in seen

\* ------------------------------------------------------- fetch_and_process_page

Say(msg, arg) == << msg, arg >>

\* f"{parsed_url.scheme}://{parsed_url.netloc}"
SchemeAndNetloc(parsed_url) ==
    parsed_url.scheme \o << ":", "/", "/" >> \o parsed_url.netloc

\* base URL from the <base> tag, else scheme://netloc of the page URL
base_url(page_url, html) ==
    IF html.has_base /\ html.href # << >> THEN html.href
    ELSE SchemeAndNetloc(urlsplit(page_url, << >>))

\* the loop state: complete_venues, seen_names, what was printed; pos and origin
\* are history: the position in extracted_data and the positions accepted
LoopStart(seen) ==
    [complete_venues |-> << >>, seen_names |-> seen, printed |-> << >>,
     pos |-> 0, origin |-> << >>]

\* venue["document_url"] = urljoin(base_url, venue["document_url"])
Normalized(venue, base) ==
    IF "document_url" \in DOMAIN venue
    THEN [venue EXCEPT !["document_url"] = urljoin(base, @)]
    ELSE venue

\* Keep without seen_names.add
KeepNoAdd(acc, v) ==
    IF ~is_complete_venue(v, required_keys) THEN acc
    ELSE IF is_duplicate_venue(v["document_name"], acc.seen_names)
    THEN [acc EXCEPT !.printed = Append(@, Say("Duplicate venue", v["document_name"]))]
    ELSE [acc EXCEPT !.complete_venues = Append(@, v),
                     !.origin = Append(@, acc.pos)]

\* Keep without the duplicate check
KeepNoDupCheck(acc, v) ==
    IF ~is_complete_venue(v, required_keys) THEN acc
    ELSE [acc EXCEPT !.seen_names = @ \cup { v["document_name"] },
                     !.complete_venues = Append(@, v),
                     !.origin = Append(@, acc.pos)]

\* Keep with seen_names.add ahead of the completeness check
KeepAddEarly(acc, v) ==
    IF "document_name" \in DOMAIN v /\ v["document_name"] \notin acc.seen_names
         /\ ~is_complete_venue(v, required_keys)
    THEN [acc EXCEPT !.seen_names = @ \cup { v["document_name"] }]
    ELSE IF ~is_complete_venue(v, required_keys) THEN acc
    ELSE IF is_duplicate_venue(v["document_name"], acc.seen_names)
    THEN [acc EXCEPT !.printed = Append(@, Say("Duplicate venue", v["document_name"]))]
    ELSE [acc EXCEPT !.seen_names = @ \cup { v["document_name"] },
                     !.complete_venues = Append(@, v),
                     !.origin = Append(@, acc.pos)]

\* the completeness check, the duplicate check, seen_names.add and append
Keep(acc, v) ==
    IF ~is_complete_venue(v, required_keys) THEN acc
    ELSE IF is_duplicate_venue(v["document_name"], acc.seen_names)
    THEN [acc EXCEPT !.printed = Append(@, Say("Duplicate venue", v["document_name"]))]
    ELSE [acc EXCEPT !.seen_names = @ \cup { v["document_name"] },
                     !.complete_venues = Append(@, v),
                     !.origin = Append(@, acc.pos)]

\* one iteration of the loop over extracted_data
VenueStep(acc, venue, base) ==
    Keep([acc EXCEPT !.pos = @ + 1], Normalized(venue, base))

RECURSIVE ProcessVenues(_, _, _)
ProcessVenues(acc, extracted_data, base) ==
    IF extracted_data = << >> THEN acc
    ELSE ProcessVenues(VenueStep(acc, Head(extracted_data), base),
                       Tail(extracted_data), base)

\* what one call leaves: the returned tuple (venues, more_pages) when it returned, the
\* exception when it raised, the prints, the number of crawler.arun calls, the
\* seen_names set and the instruction left in llm_strategy
Result(returned, venues, more_pages, raised, printed, arun, seen, instruction, origin) ==
    [op |-> "fetch_and_process_page", returned |-> returned, venues |-> venues,
     more_pages |-> more_pages, raised |-> raised, printed |-> printed, arun |-> arun,
     seen_names |-> seen, instruction |-> instruction, origin |-> origin]

\* the early return with the upstream error_message left out of the print
InitialFetchFailedSilent(initial_result, seen, instruction) ==
    Result(TRUE, << >>, FALSE, None,
           << Say("Error fetching initial page", << >>) >>,
           1, seen, instruction, << >>)

\* if not initial_result.success
InitialFetchFailed(initial_result, seen, instruction) ==
    Result(TRUE, << >>, FALSE, None,
           << Say("Error fetching initial page", initial_result.error_message) >>,
           1, seen, instruction, << >>)

\* if not (result.success and result.extracted_content)
ExtractionFailed(result, seen, base) ==
    Result(TRUE, << >>, FALSE, None,
           << Say("Detected base URL", base),
              Say("Error fetching URL", result.error_message) >>,
           2, seen, base, << >>)

\* json.loads(result.extracted_content) on text that is not JSON
ParseRaises(result, seen, base) ==
    Result(FALSE, << >>, FALSE, "JSONDecodeError",
           << Say("Detected base URL", base) >>, 2, seen, base, << >>)

\* if not extracted_data
NoVenues(seen, base) ==
    Result(TRUE, << >>, FALSE, None,
           << Say("Detected base URL", base), Say("No venues found.", << >>) >>,
           2, seen, base, << >>)

\* the final return with True for the second element
ReturnTrue(acc, extracted_data, base) ==
    Result(TRUE, acc.complete_venues, TRUE, None,
           << Say("Detected base URL", base), Say("Extracted data:", extracted_data) >>
             \o acc.printed
             \o << Say("Extracted venues:", << Len(acc.complete_venues) >>) >>,
           2, acc.seen_names, base, acc.origin)

\* print(f"Extracted {len(complete_venues)} venues."); return complete_venues, False
Return(acc, extracted_data, base) ==
    Result(TRUE, acc.complete_venues, FALSE, None,
           << Say("Detected base URL", base), Say("Extracted data:", extracted_data) >>
             \o acc.printed
             \o << Say("Extracted venues:", << Len(acc.complete_venues) >>) >>,
           2, acc.seen_names, base, acc.origin)

\* the loop and the final return
Processed(extracted_data, seen, base) ==
    Return(ProcessVenues(LoopStart(seen), extracted_data, base), extracted_data, base)

\* the function from the second crawler.arun on, base_url being resolved
Extract(result, seen, base) ==
    IF ~(result.success /\ result.extracted_content.kind # "None")
    THEN ExtractionFailed(result, seen, base)
    ELSE IF result.extracted_content.kind = "malformed"
    THEN ParseRaises(result, seen, base)
    ELSE IF result.extracted_content.data = << >>
    THEN NoVenues(seen, base)
    ELSE Processed(result.extracted_content.data, seen, base)

fetch_and_process_page(page_url, initial_result, result, instruction, seen) ==
    IF ~initial_result.success
    THEN InitialFetchFailed(initial_result, seen, instruction)
    ELSE Extract(result, seen, base_url(page_url, initial_result.cleaned_html))

\* -------------------------------------------------------------- check_no_results

check_no_results(result) ==
    [op |-> "check_no_results",
     value |-> result.success /\ result.cleaned_html.marker,
     printed |-> IF result.success THEN << >>
                 ELSE << Say("Error fetching page for 'No Results Found' check",
                             result.error_message) >>]

\* -------------------------------------------------------------- get_llm_strategy

DefaultInstruction == << "default" >>

get_llm_strategy(env) ==
    [api_token |-> env, instruction |-> DefaultInstruction]

\* ------------------------------------------------------------------- the run

\* the driver's accumulation of the pages' records, in page order
Accumulate(all, venues, page) ==
    all \o [i \in DOMAIN venues |-> [name |-> venues[i]["document_name"], page |-> page]]

Unset == [op |-> "none"]

VARIABLES
    GROQ_API_KEY,   \* the environment variable: None or the key
    llm_strategy,   \* Unset, or the strategy object get_llm_strategy built
    seen_names,     \* the set passed to every fetch_and_process_page call
    page_number,    \* pages processed so far
    all_venues,     \* (name, page) of every record the pages returned, in order
    call,           \* the collaborators' answers in the last call
    outcome         \* what the last call left

vars == << GROQ_API_KEY, llm_strategy, seen_names, page_number, all_venues, call, outcome >>

NoCall == [initial_result |-> FetchFailed, result |-> NotCalled, seen_before |-> {}]

Init ==
    /\ GROQ_API_KEY \in { None, "gsk_key" }
    /\ llm_strategy = Unset
    /\ seen_names = {}
    /\ page_number = 0
    /\ all_venues = << >>
    /\ call = NoCall
    /\ outcome = Unset

GetLlmStrategy ==
    /\ llm_strategy = Unset
    /\ llm_strategy' = get_llm_strategy(GROQ_API_KEY)
    /\ UNCHANGED << GROQ_API_KEY, seen_names, page_number, all_venues, call, outcome >>

CheckNoResults ==
    /\ \E r \in Pages \cup { FetchFailed } :
         /\ outcome' = check_no_results(r)
         /\ call' = [initial_result |-> r, result |-> NotCalled, seen_before |-> seen_names]
    /\ UNCHANGED << GROQ_API_KEY, llm_strategy, seen_names, page_number, all_venues >>

\* the state a call leaves
Left(out, initial_result, result) ==
    /\ outcome' = out
    /\ seen_names' = out.seen_names
    /\ llm_strategy' = [llm_strategy EXCEPT !.instruction = out.instruction]
    /\ page_number' = page_number + 1
    /\ all_venues' = Accumulate(all_venues, out.venues, page_number + 1)
    /\ call' = [initial_result |-> initial_result, result |-> result,
                seen_before |-> seen_names]
    /\ UNCHANGED GROQ_API_KEY

\* one call of fetch_and_process_page by the driver, with the collaborators' answers
Call(initial_result, result) ==
    Left(fetch_and_process_page(PageUrl, initial_result, result,
                                llm_strategy.instruction, seen_names),
         initial_result, result)

PageFetchFails ==
    /\ llm_strategy # Unset
    /\ page_number < MaxPages
    /\ Call(FetchFailed, NotCalled)

PageFetched ==
    /\ llm_strategy # Unset
    /\ page_number < MaxPages
    /\ \E initial_result \in Pages, result \in ExtractionResults :
         Call(initial_result, result)

Next == GetLlmStrategy \/ CheckNoResults \/ PageFetchFails \/ PageFetched

Spec == Init /\ [][Next]_vars

\* ------------------------------------------------------------------ claims

IsPageCall == outcome.op = "fetch_and_process_page"

Fetched == IsPageCall /\ call.initial_result.success

Marker == call.initial_result.cleaned_html.marker

\* extracted_data of the last call
Data == call.result.extracted_content.data

Parsed == Fetched /\ call.result.success /\ call.result.extracted_content.kind = "json"

Names(venues) == { venues[i]["document_name"] : i \in DOMAIN venues }

Printed(msg, arg) ==
    \E i \in DOMAIN outcome.printed :
        outcome.printed[i][1] = msg /\ outcome.printed[i][2] = arg

\* the raw item the k-th returned record was made from
Raw(k) == Data[outcome.origin[k]]

\* the base URLs a page of the run can resolve to
Bases == { base_url(PageUrl, p.cleaned_html) : p \in Pages }

HasScheme(url) == urlsplit(url, << >>).scheme # << >>

HasNetloc(url) == urlsplit(url, << >>).netloc # << >>

Reparsed(p) == urlunsplit(p.scheme, p.netloc, p.url)

\* the text is what urlunsplit(urlsplit(url)) gives back
Canonical(url) == Reparsed(urlsplit(url, << >>)) = url

\* C1: no two records accepted over the whole run have the same document_name,
\* also when one page's extraction result holds the name twice.
C1_DedupInvariant ==
    \A i, j \in DOMAIN all_venues :
        all_venues[i].name = all_venues[j].name => i = j

\* C1 witness: one page extracted the same name twice and returned it once.
C1_Witness ==
    /\ Parsed
    /\ Data = << Item(CertA, RootRel), Item(CertA, Absolute) >>
    /\ Len(outcome.venues) = 1
    /\ Printed("Duplicate venue", CertA)

\* C2: on a fetched page whose content holds the no-results marker the returned
\* more_pages is false, whatever number of records the page returned.
C2_MarkerStops ==
    (Fetched /\ outcome.returned /\ Marker) => outcome.more_pages = FALSE

\* C2 witness: a page with the marker returned records.
C2_Witness ==
    Fetched /\ outcome.returned /\ Marker /\ Len(outcome.venues) = 2

\* C3: when the initial fetch fails the call returns no record and more_pages
\* false, makes no extraction call and prints the upstream error_message.
C3_FetchFailure ==
    (IsPageCall /\ ~call.initial_result.success) =>
        /\ outcome.returned
        /\ outcome.venues = << >>
        /\ outcome.more_pages = FALSE
        /\ outcome.arun = 1
        /\ Printed("Error fetching initial page", call.initial_result.error_message)

\* C3 witness: the fetch of a later page failed, after a page returned records.
C3_Witness ==
    /\ IsPageCall /\ ~call.initial_result.success
    /\ page_number = 2 /\ seen_names # {}

\* C4: first occurrence wins: a record of the run's output stays where it is and
\* no later call adds another record of the same name.
C4_FirstOccurrenceWins ==
    [][\A i \in DOMAIN all_venues :
          /\ i \in DOMAIN all_venues'
          /\ all_venues'[i] = all_venues[i]
          /\ \A j \in DOMAIN all_venues' :
                all_venues'[j].name = all_venues[i].name => j = i]_vars

\* C4 witness: page 1 returned Cert A, page 2 extracted a complete Cert A item
\* and dropped it.
C4_Witness ==
    /\ Parsed /\ page_number = 2
    /\ all_venues = << [name |-> CertA, page |-> 1] >>
    /\ Data = << Item(CertA, Absolute) >>
    /\ outcome.venues = << >>

\* C5: every returned record has a non-blank document_name and document_url, and
\* a raw item in which either is missing or blank is not returned.
C5_IncompleteDropped ==
    Parsed =>
        \A k \in DOMAIN outcome.venues :
            /\ is_complete_venue(outcome.venues[k], required_keys)
            /\ is_complete_venue(Raw(k), required_keys)

\* C6 as stated: a raw document_url that has a scheme is stored unchanged and
\* normalizing the stored URL against any base gives it back.
C6_SchemeUnchanged ==
    Parsed =>
        \A k \in DOMAIN outcome.venues :
            HasScheme(Raw(k)["document_url"]) =>
                /\ outcome.venues[k]["document_url"] = Raw(k)["document_url"]
                /\ \A b \in Bases :
                      urljoin(b, outcome.venues[k]["document_url"])
                        = outcome.venues[k]["document_url"]

\* C6 amended: a raw document_url that has a scheme and a network location and is
\* in the form urlunsplit writes is stored unchanged, and normalizing the stored
\* URL against any base gives it back.
C6_AbsoluteUnchanged ==
    Parsed =>
        \A k \in DOMAIN outcome.venues :
            ( /\ HasScheme(Raw(k)["document_url"])
              /\ HasNetloc(Raw(k)["document_url"])
              /\ Canonical(Raw(k)["document_url"]) ) =>
                /\ outcome.venues[k]["document_url"] = Raw(k)["document_url"]
                /\ \A b \in Bases :
                      urljoin(b, outcome.venues[k]["document_url"])
                        = outcome.venues[k]["document_url"]

\* C6 witness: an absolute URL of the base's scheme, with dot segments, was stored.
C6_Witness ==
    /\ Parsed
    /\ Data = << Item(CertB, AbsoluteDots) >>
    /\ outcome.instruction = HrefCdn
    /\ Len(outcome.venues) = 1

\* C7: on a fetched page without the marker more_pages is true, whatever the
\* extraction gave.
C7_NoMarkerContinues ==
    (Fetched /\ outcome.returned /\ ~Marker) => outcome.more_pages = TRUE

\* C8: extracted content that is not well-formed is handled like an extraction
\* failure: the call returns no record, raises nothing and leaves seen_names.
C8_ParseFailureNonFatal ==
    (Fetched /\ call.result.success /\ call.result.extracted_content.kind = "malformed") =>
        /\ outcome.returned
        /\ outcome.raised = None
        /\ outcome.venues = << >>
        /\ seen_names = call.seen_before

\* C9: no page is fetched while the API token is absent from the environment.
C9_NoFetchWithoutToken ==
    IsPageCall => llm_strategy.api_token # None

====
